---- MODULE Spec2Model ----
(***************************************************************************)
(* A model of the two scripts of the repository:                           *)
(*   setup_all_databases.py  seeds a row store (SQLite) and a document     *)
(*                           store (MongoDB);                              *)
(*   analysis.py             runs eight checks ("use cases") over them.    *)
(* The stores are the state both programs share.  Each SQL query and each  *)
(* aggregation is an operator over the stores, computed as SQLite, MongoDB *)
(* and pandas compute it; each try/except block of analysis.py and each    *)
(* statement group of the seeding script is one action.                    *)
(***************************************************************************)
EXTENDS Integers, Sequences, FiniteSets, TLC

VARIABLES
    \* ---- row store (security_db.db) ----
    Employee_Data, File_Data, File_Access, Endpoint_Security,
    Protocol_Data, Network_Usage, Security_Incidents, Incident_Response,
    Roles, Permissions, Roles_Permissions, Access_Type,
    Detection_Method, Detected_By, Incident_Detection,
    tables,           \* the names of the tables that exist
    sqlite_sequence,  \* per table, the largest id AUTOINCREMENT has given out
    \* ---- document store (Cybersecurity_Dep) ----
    Access_logs, Phishing_attacks,
    \* ---- analysis.py ----
    pc,           \* position of the script
    raises,       \* the checks whose read raises in this run
    attempted,    \* the checks whose try block was entered, in order
    out,          \* what each check printed
    banner,       \* the completion banner was printed
    sql_conn, mongo_client,   \* "none", "open" or "closed"
    \* ---- setup_all_databases.py ----
    spc,          \* position of the seeding script
    access_logs_data,  \* the list built before insert_many
    cnxn,         \* "none", "open" or "closed"
    mongoclient,  \* "unbound", "open", "down" (bound, server unreachable) or "closed"
    reported,     \* the failures the seeding script printed
    random,       \* what the random module returns in this run
    runs          \* the complete seeding runs the stores have been through

sqlStore == <<Employee_Data, File_Data, File_Access, Endpoint_Security,
              Protocol_Data, Network_Usage, Security_Incidents, Incident_Response,
              Roles, Permissions, Roles_Permissions, Access_Type,
              Detection_Method, Detected_By, Incident_Detection,
              tables, sqlite_sequence>>
mongoStore == <<Access_logs, Phishing_attacks>>
runVars == <<pc, raises, attempted, out, banner, sql_conn, mongo_client>>
setupVars == <<cnxn, mongoclient, reported, random, runs>>
seedVars == <<spc, access_logs_data, setupVars>>
vars == <<sqlStore, mongoStore, runVars, seedVars>>

\* ------------------------------------------------------------------ bounds
MaxRows == 2          \* rows drawn into a row-store table under test
MaxFailLogs == 5      \* documents drawn into Access_logs for use case 3
MaxTravelLogs == 3    \* documents drawn into Access_logs for use case 6
MaxPhish == 3         \* documents drawn into Phishing_attacks
BulkCount == 1        \* iterations of the bulk loop (200 in the script)
PhishCount == 1       \* phishing documents generated (100 in the script)
MaxDays == 1          \* largest age in days of a bulk entry (30 in the script)

\* ----------------------------------------------------------- value markers
\* SQL NULL in a text column.  No column value of the model spells it.
NULL == "NULL"
\* Python None and pandas NaN in an object column.
None == "None"
NaN == "NaN"
\* SQL NULL as the result of a text function (strftime never yields '').
NullText == <<>>

Range(s) == {s[i] : i \in DOMAIN s}
SeqsUpTo(D, n) == UNION {[1..k -> D] : k \in 0..n}
Perms(S) == {p \in [1..Cardinality(S) -> S] : \A i, j \in DOMAIN p : i # j => p[i] # p[j]}

\* ----------------------------------------------- SQLite three-valued logic
Bool3(b) == IF b THEN "T" ELSE "F"
Or3(a, b) == IF a = "T" \/ b = "T" THEN "T"
             ELSE IF a = "F" /\ b = "F" THEN "F" ELSE "N"
And3(a, b) == IF a = "F" \/ b = "F" THEN "F"
              ELSE IF a = "T" /\ b = "T" THEN "T" ELSE "N"

\* Text comparison under the BINARY collation (memcmp, then length); a text
\* is the sequence of its characters, a digit character is its digit.
TextLess(a, b) ==
    \/ \E i \in 1..Len(a) : /\ i <= Len(b)
                            /\ a[i] < b[i]
                            /\ \A j \in 1..(i - 1) : a[j] = b[j]
    \/ Len(a) < Len(b) /\ \A j \in 1..Len(a) : a[j] = b[j]
SqlLt(a, b) == IF a = NullText \/ b = NullText THEN "N" ELSE Bool3(TextLess(a, b))
SqlGe(a, b) == IF a = NullText \/ b = NullText THEN "N" ELSE Bool3(~TextLess(a, b))
\* != and IN over a nullable text column held as a string
SqlNe(a, b) == IF a = NULL \/ b = NULL THEN "N" ELSE Bool3(a # b)
SqlIn(a, S) == IF a = NULL THEN "N" ELSE Bool3(a \in S)

\* --------------------------------------------------------------- printing
Printed(msg, n, rows) == [msg |-> msg, n |-> n, rows |-> rows]
NoOutput == Printed("", 0, <<>>)
ErrorOutput == Printed("Error: {e}", 0, <<>>)
\* DataFrame.to_string(): the table, or pandas' rendering of an empty frame
to_string(df) == IF Len(df) = 0 THEN Printed("Empty DataFrame", 0, <<>>)
                 ELSE Printed("{table}", Len(df), df)

\* ------------------------------------------------------------- row lookups
HasEmployee(id) == \E e \in Range(Employee_Data) : e.employee_id = id
EmployeeOf(id) == CHOOSE e \in Range(Employee_Data) : e.employee_id = id
HasFile(id) == \E f \in Range(File_Data) : f.file_id = id
FileOf(id) == CHOOSE f \in Range(File_Data) : f.file_id = id
HasProtocol(id) == \E p \in Range(Protocol_Data) : p.protocol_id = id
ProtocolOf(id) == CHOOSE p \in Range(Protocol_Data) : p.protocol_id = id
HasIncident(id) == \E i \in Range(Security_Incidents) : i.incident_id = id
IncidentOf(id) == CHOOSE i \in Range(Security_Incidents) : i.incident_id = id

\* =========================================================================
\*  USE CASE 1: off-hours access
\* =========================================================================
\* A timestamp text 'YYYY-MM-DD HH:MM:SS' is [valid, hh, mm]; a text SQLite
\* cannot parse is one with valid = FALSE.
Time(hh, mm) == [valid |-> TRUE, hh |-> hh, mm |-> mm]
BadTime == [valid |-> FALSE, hh |-> 0, mm |-> 0]
\* strftime('%H', t): two digit characters, or NULL
strftime_H(t) == IF t.valid THEN <<t.hh \div 10, t.hh % 10>> ELSE NullText

\* the filter with '>' where the query has '>='
InsiderWhereAfter20(f) == Or3(SqlLt(strftime_H(f.timestamp), <<0, 8>>),
                              SqlLt(<<2, 0>>, strftime_H(f.timestamp)))
InsiderWhere(f) == Or3(SqlLt(strftime_H(f.timestamp), <<0, 8>>),
                       SqlGe(strftime_H(f.timestamp), <<2, 0>>))
query_insider ==
    LET hit == SelectSeq(File_Access,
                   LAMBDA f : HasEmployee(f.employee_id) /\ InsiderWhere(f) = "T")
    IN [k \in 1..Len(hit) |->
            [access_id |-> hit[k].access_id,
             Employee |-> EmployeeOf(hit[k].employee_id).name,
             Department |-> EmployeeOf(hit[k].employee_id).Department,
             Access_Time |-> hit[k].timestamp]]

\* =========================================================================
\*  USE CASE 7: RBAC violation
\* =========================================================================
UpperCase == <<"A", "B", "C", "D", "E", "F", "G", "H", "I", "J", "K", "L", "M",
               "N", "O", "P", "Q", "R", "S", "T", "U", "V", "W", "X", "Y", "Z">>
LowerCase == <<"a", "b", "c", "d", "e", "f", "g", "h", "i", "j", "k", "l", "m",
               "n", "o", "p", "q", "r", "s", "t", "u", "v", "w", "x", "y", "z">>
\* SQLite's LIKE folds the case of ASCII letters
Fold(c) == IF \E i \in DOMAIN UpperCase : UpperCase[i] = c
           THEN LowerCase[CHOOSE i \in DOMAIN UpperCase : UpperCase[i] = c]
           ELSE c
\* the comparison of a LIKE that does not fold case
CharSame(c, d) == c = d
CharLike(c, d) == Fold(c) = Fold(d)
\* text LIKE '%word%', word holding neither % nor _
Like(text, word) ==
    \E i \in 1..(Len(text) - Len(word) + 1) :
        \A j \in 1..Len(word) : CharLike(text[i + j - 1], word[j])

Budget == <<"B", "u", "d", "g", "e", "t">>
Payroll == <<"P", "a", "y", "r", "o", "l", "l">>

RbacWhere(e, f) ==
    And3(Bool3(e.Department \notin {"Finance", "HR"}),
         Or3(Bool3(Like(f.file_name, Budget)), Bool3(Like(f.file_name, Payroll))))
query_rbac ==
    LET hit == SelectSeq(File_Access,
                   LAMBDA fa : /\ HasEmployee(fa.employee_id)
                               /\ HasFile(fa.file_id)
                               /\ RbacWhere(EmployeeOf(fa.employee_id),
                                            FileOf(fa.file_id)) = "T")
    IN [k \in 1..Len(hit) |->
            [access_id |-> hit[k].access_id,
             Employee |-> EmployeeOf(hit[k].employee_id).name,
             Department |-> EmployeeOf(hit[k].employee_id).Department,
             file_name |-> FileOf(hit[k].file_id).file_name]]

\* =========================================================================
\*  USE CASE 8: endpoint vulnerability
\* =========================================================================
VulnWhere(s) == Or3(SqlNe(s.antivirus_status, "Active"),
                    SqlIn(s.os_version, {"XP", "7"}))
query_vuln ==
    LET hit == SelectSeq(Endpoint_Security,
                   LAMBDA s : HasEmployee(s.employee_id) /\ VulnWhere(s) = "T")
    IN [k \in 1..Len(hit) |->
            [device_id |-> hit[k].device_id,
             Owner |-> EmployeeOf(hit[k].employee_id).name,
             os_name |-> hit[k].os_name,
             os_version |-> hit[k].os_version,
             antivirus_status |-> hit[k].antivirus_status]]

\* =========================================================================
\*  USE CASE 2: mean incident response time
\* =========================================================================
\* A response time is held as the minute it denotes, so that
\* (julianday(end) - julianday(start)) * 1440 is end - start.
SlaJoined == SelectSeq(Incident_Response, LAMBDA r : HasIncident(r.incident_id))
SlaType(r) == IncidentOf(r.incident_id).incident_type
RECURSIVE SumMinutes(_)
SumMinutes(rows) ==
    IF rows = <<>> THEN 0
    ELSE (Head(rows).response_end_time - Head(rows).response_start_time)
         + SumMinutes(Tail(rows))
\* AVG is held as the pair it divides: sum of minutes / number of rows
SlaGroup(t) ==
    LET rows == SelectSeq(SlaJoined, LAMBDA r : SlaType(r) = t)
    IN [incident_type |-> t,
        Avg_Minutes |-> [sum |-> SumMinutes(rows), count |-> Len(rows)]]
\* every row order the query allows (it has no ORDER BY)
query_sla == Perms({SlaGroup(t) : t \in {SlaType(r) : r \in Range(SlaJoined)}})

\* =========================================================================
\*  USE CASE 3: repeated failed logins
\* =========================================================================
\* {"$match": {"STATUS": "Failed"}}
StageMatchFailed == SelectSeq(Access_logs, LAMBDA d : d.STATUS = "Failed")
\* {"$group": {"_id": "$_ID", "Failed_Count": {"$sum": 1}}}
StageGroup ==
    {[_id |-> id,
      Failed_Count |-> Len(SelectSeq(StageMatchFailed, LAMBDA d : d._ID = id))] :
        id \in {d._ID : d \in Range(StageMatchFailed)}}
\* the threshold stage with 3 where the pipeline has 2
StageMatchCountAtLeast3 == {g \in StageGroup : g.Failed_Count >= 3}
\* {"$match": {"Failed_Count": {"$gte": 2}}}
StageMatchCount == {g \in StageGroup : g.Failed_Count >= 2}
\* {"$sort": {"Failed_Count": -1}}: every order the sort allows
StageSort == {p \in Perms(StageMatchCount) :
                 \A i, j \in DOMAIN p : i < j => p[i].Failed_Count >= p[j].Failed_Count}

\* =========================================================================
\*  USE CASE 4: high-risk phishing clicks
\* =========================================================================
\* An anomaly score is held in hundredths: 0.8 is 80, 0.81 is 81.
\* the filter with $gte where the query has $gt
query_phish_gte(d) == d.ANOMALY_SCORE >= 80 /\ d.LINK_CLICKED = TRUE
query_phish(d) == d.ANOMALY_SCORE > 80 /\ d.LINK_CLICKED = TRUE
count_documents == Len(SelectSeq(Phishing_attacks, query_phish))

\* =========================================================================
\*  USE CASE 5: data exfiltration
\* =========================================================================
\* Megabytes are held as whole numbers.
ExfilJoined == SelectSeq(Network_Usage,
                   LAMBDA n : HasEmployee(n.employee_id) /\ HasProtocol(n.protocol_id))
\* GROUP BY e.employee_id, p.protocol_name
ExfilKey(n) == <<n.employee_id, ProtocolOf(n.protocol_id).protocol_name>>
RECURSIVE SumMB(_)
SumMB(rows) == IF rows = <<>> THEN 0
               ELSE Head(rows).data_transfered_MB + SumMB(Tail(rows))
ExfilGroup(key) ==
    [employee_id |-> key[1],
     Employee |-> EmployeeOf(key[1]).name,
     protocol_name |-> key[2],
     Total_MB |-> SumMB(SelectSeq(ExfilJoined, LAMBDA n : ExfilKey(n) = key))]
\* the filter with >= where the query has >
ExfilHavingAtLeast(g) == g.Total_MB >= 100
\* HAVING Total_MB > 100
ExfilHaving(g) == g.Total_MB > 100
\* ORDER BY Total_MB DESC: every order the sort allows
query_exfil ==
    {p \in Perms({g \in {ExfilGroup(ExfilKey(n)) : n \in Range(ExfilJoined)} :
                     ExfilHaving(g)}) :
        \A i, j \in DOMAIN p : i < j => p[i].Total_MB >= p[j].Total_MB}

\* =========================================================================
\*  USE CASE 6: impossible travel
\* =========================================================================
\* The script's subject ids, in their string order (the script has 79).
all_ids == <<"EMP001", "VEND01">>
IdRank(id) == CHOOSE i \in DOMAIN all_ids : all_ids[i] = id

\* A LOCATION: a dict (Country may be missing: get() gives None), a value
\* that is no dict, or no LOCATION field at all.
Loc(city, country) == [kind |-> "dict", City |-> city, Country |-> country]
LocNoCountry == [kind |-> "dict", City |-> "London", Country |-> None]
LocNotDict == [kind |-> "str", City |-> None, Country |-> None]
LocMissing == [kind |-> "missing", City |-> None, Country |-> None]

\* lambda x: x.get('Country') if isinstance(x, dict) else None
CountryOf(x) == IF x.kind = "dict" THEN x.Country ELSE None

\* sort_values(by=['_ID', 'TIMESTAMP']): a stable sort
RowLess(a, b) == \/ IdRank(a._ID) < IdRank(b._ID)
                 \/ a._ID = b._ID /\ a.TIMESTAMP < b.TIMESTAMP
\* the place of row k of df after the sort: behind every row that is less,
\* and behind the earlier rows that compare equal
Place(df, k) ==
    1 + Cardinality({j \in DOMAIN df :
                        \/ RowLess(df[j], df[k])
                        \/ ~RowLess(df[k], df[j]) /\ j < k})
sort_values(df) ==
    [p \in DOMAIN df |-> df[CHOOSE k \in DOMAIN df : Place(df, k) = p]]

\* groupby('_ID')['Country'].shift(1): the Country of the row before in the
\* same group, NaN for the first row of a group
Prev_Country(df, k) ==
    LET before == {j \in 1..(k - 1) : df[j]._ID = df[k]._ID}
    IN IF before = {} THEN NaN
       ELSE df[CHOOSE j \in before : \A i \in before : i <= j].Country
notnull(x) == x \notin {None, NaN}
\* the filter without the notnull() conjunct
JumpAnyPrev(r) == r.Country # r.Prev_Country
\* (Country != Prev_Country) & Prev_Country.notnull()
Jump(r) == r.Country # r.Prev_Country /\ notnull(r.Prev_Country)

\* pd.DataFrame(logs) with the Country column
DataFrame(logs) ==
    [k \in DOMAIN logs |->
        [_id |-> logs[k]._id, _ID |-> logs[k]._ID, TIMESTAMP |-> logs[k].TIMESTAMP,
         Country |-> CountryOf(logs[k].LOCATION)]]
\* df_logs['Prev_Country'] = ...shift(1)
shift(df) ==
    [k \in DOMAIN df |->
        [_id |-> df[k]._id, _ID |-> df[k]._ID, TIMESTAMP |-> df[k].TIMESTAMP,
         Country |-> df[k].Country, Prev_Country |-> Prev_Country(df, k)]]
\* the rows use case 6 calls impossible travel
ImpossibleTravel(logs) == SelectSeq(shift(sort_values(DataFrame(logs))), Jump)
\* df_logs['LOCATION'] raises KeyError when no document has the field
NoLocationColumn(logs) == \A k \in DOMAIN logs : logs[k].LOCATION.kind = "missing"
\* DataFrame.head(): the first five rows
HeadRows == 5
head(df) == SubSeq(df, 1, IF Len(df) < HeadRows THEN Len(df) ELSE HeadRows)

\* =========================================================================
\*  analysis.py: the run
\* =========================================================================
Checks == 1..8
PcOf == <<"uc1", "uc2", "uc3", "uc4", "uc5", "uc6", "uc7", "uc8", "banner">>

\* try: sqlite3.connect / MongoClient ... except: print, exit()
Connect ==
    /\ pc = "connect"
    /\ \/ /\ sql_conn' = "open"
          /\ mongo_client' = "open"
          /\ pc' = "uc1"
       \/ /\ \E opened \in {"none", "open"} : sql_conn' = opened
          /\ mongo_client' = "none"
          /\ pc' = "exited"
    /\ UNCHANGED <<sqlStore, mongoStore, seedVars, raises, attempted, out, banner>>

\* a handler that ends the run where the script's goes on
ExceptExit(i) ==
    /\ out' = [out EXCEPT ![i] = ErrorOutput]
    /\ pc' = "exited"
\* except Exception as e: print(f"Error: {e}"), then the next statement
Except(i) ==
    /\ out' = [out EXCEPT ![i] = ErrorOutput]
    /\ pc' = PcOf[i + 1]
\* a try block that ran to its end printing what
Try(i, what) ==
    /\ out' = [out EXCEPT ![i] = what]
    /\ pc' = PcOf[i + 1]
Enter(i) ==
    /\ pc = PcOf[i]
    /\ attempted' = Append(attempted, i)
    /\ UNCHANGED <<sqlStore, mongoStore, seedVars, raises, banner, sql_conn, mongo_client>>

UseCase1 ==
    /\ Enter(1)
    /\ \/ /\ 1 \notin raises
          /\ Try(1, IF Len(query_insider) # 0 THEN to_string(query_insider)
                    ELSE Printed(">> No after-hours access detected.", 0, <<>>))
       \/ 1 \in raises /\ Except(1)

UseCase2 ==
    /\ Enter(2)
    /\ \/ /\ 2 \notin raises
          /\ \E df_sla \in query_sla : Try(2, to_string(df_sla))
       \/ 2 \in raises /\ Except(2)

UseCase3 ==
    /\ Enter(3)
    /\ \/ /\ 3 \notin raises
          /\ \E results \in StageSort :
                Try(3, IF Len(results) # 0 THEN to_string(results)
                       ELSE Printed(">> No users exceeded failure threshold.", 0, <<>>))
       \/ 3 \in raises /\ Except(3)

UseCase4 ==
    /\ Enter(4)
    /\ \/ /\ 4 \notin raises
          /\ Try(4, Printed(">> Total Users Compromised: {victim_count}",
                            count_documents, <<>>))
       \/ 4 \in raises /\ Except(4)

UseCase5 ==
    /\ Enter(5)
    /\ \/ /\ 5 \notin raises
          /\ \E df_exfil \in query_exfil :
                Try(5, IF Len(df_exfil) # 0 THEN to_string(df_exfil)
                       ELSE Printed(">> No large transfers detected.", 0, <<>>))
       \/ 5 \in raises /\ Except(5)

UseCase6 ==
    /\ Enter(6)
    /\ \/ /\ 6 \notin raises
          /\ Len(Access_logs) = 0
          /\ Try(6, Printed(">> No log data available.", 0, <<>>))
       \/ /\ 6 \notin raises
          /\ Len(Access_logs) # 0
          /\ ~NoLocationColumn(Access_logs)
          /\ \E df_logs \in {sort_values(DataFrame(Access_logs))} :
             \E impossible_travel \in {SelectSeq(shift(df_logs), Jump)} :
                Try(6, IF Len(impossible_travel) # 0
                       THEN Printed(">> ALERT: {n} suspicious location jumps detected.",
                                    Len(impossible_travel), head(impossible_travel))
                       ELSE Printed(">> No impossible travel patterns found.", 0, <<>>))
       \/ /\ 6 \in raises \/ (Len(Access_logs) # 0 /\ NoLocationColumn(Access_logs))
          /\ Except(6)

UseCase7 ==
    /\ Enter(7)
    /\ \/ /\ 7 \notin raises
          /\ Try(7, IF Len(query_rbac) # 0 THEN to_string(query_rbac)
                    ELSE Printed(">> No RBAC violations detected.", 0, <<>>))
       \/ 7 \in raises /\ Except(7)

UseCase8 ==
    /\ Enter(8)
    /\ \/ /\ 8 \notin raises
          /\ Try(8, IF Len(query_vuln) # 0
                    THEN Printed(">> ALERT: {n} devices require immediate patching.",
                                 Len(query_vuln), query_vuln)
                    ELSE Printed(">> All devices healthy.", 0, <<>>))
       \/ 8 \in raises /\ Except(8)

\* print("   ANALYSIS COMPLETE")
Banner ==
    /\ pc = "banner"
    /\ banner' = TRUE
    /\ pc' = "cleanup"
    /\ UNCHANGED <<sqlStore, mongoStore, seedVars, raises, attempted, out,
                   sql_conn, mongo_client>>

\* sql_conn.close(); mongo_client.close()
Cleanup ==
    /\ pc = "cleanup"
    /\ sql_conn' = "closed"
    /\ mongo_client' = "closed"
    /\ pc' = "done"
    /\ UNCHANGED <<sqlStore, mongoStore, seedVars, raises, attempted, out, banner>>

Next ==
    \/ Connect
    \/ UseCase1 \/ UseCase2 \/ UseCase3 \/ UseCase4
    \/ UseCase5 \/ UseCase6 \/ UseCase7 \/ UseCase8
    \/ Banner
    \/ Cleanup

\* ======================================================================
\* setup_all_databases.py, the connections and sections A and B
\* ======================================================================

\* ---- the literals of section B
\* INSERT INTO Employee_Data: name, department and placeholder role of each row
EmpNames_sql ==
    <<[name |-> "Alice Johnson", Department |-> "Finance", role_ID |-> 1],
      [name |-> "Bob Smith", Department |-> "IT", role_ID |-> 2],
      [name |-> "Charlie Brown", Department |-> "HR", role_ID |-> 3],
      [name |-> "David Wilson", Department |-> "Cybersecurity", role_ID |-> 4],
      [name |-> "Emma Davis", Department |-> "Operations", role_ID |-> 5],
      [name |-> "Frank Miller", Department |-> "Finance", role_ID |-> 1],
      [name |-> "Grace Moore", Department |-> "IT", role_ID |-> 2],
      [name |-> "Hannah Taylor", Department |-> "HR", role_ID |-> 3],
      [name |-> "Isaac Anderson", Department |-> "Cybersecurity", role_ID |-> 4],
      [name |-> "Jack Thomas", Department |-> "Operations", role_ID |-> 5],
      [name |-> "Kelly White", Department |-> "Finance", role_ID |-> 1],
      [name |-> "Liam Harris", Department |-> "IT", role_ID |-> 2],
      [name |-> "Mia Martin", Department |-> "HR", role_ID |-> 3],
      [name |-> "Noah Thompson", Department |-> "Cybersecurity", role_ID |-> 4],
      [name |-> "Olivia Garcia", Department |-> "Operations", role_ID |-> 5],
      [name |-> "Peter Martinez", Department |-> "Finance", role_ID |-> 1],
      [name |-> "Quinn Robinson", Department |-> "IT", role_ID |-> 2],
      [name |-> "Ryan Clark", Department |-> "HR", role_ID |-> 3],
      [name |-> "Sophia Rodriguez", Department |-> "Cybersecurity", role_ID |-> 4],
      [name |-> "Tyler Lewis", Department |-> "Operations", role_ID |-> 5],
      [name |-> "Uma Lee", Department |-> "Finance", role_ID |-> 1],
      [name |-> "Victor Walker", Department |-> "IT", role_ID |-> 2],
      [name |-> "Wendy Hall", Department |-> "HR", role_ID |-> 3],
      [name |-> "Xander Allen", Department |-> "Cybersecurity", role_ID |-> 4],
      [name |-> "Yara Young", Department |-> "Operations", role_ID |-> 5],
      [name |-> "Zach King", Department |-> "Finance", role_ID |-> 1],
      [name |-> "Amy Scott", Department |-> "IT", role_ID |-> 2],
      [name |-> "Brian Green", Department |-> "HR", role_ID |-> 3],
      [name |-> "Chloe Adams", Department |-> "Cybersecurity", role_ID |-> 4],
      [name |-> "Daniel Baker", Department |-> "Operations", role_ID |-> 5],
      [name |-> "Ella Gonzalez", Department |-> "Finance", role_ID |-> 1],
      [name |-> "Finn Nelson", Department |-> "IT", role_ID |-> 2],
      [name |-> "George Carter", Department |-> "HR", role_ID |-> 3],
      [name |-> "Holly Mitchell", Department |-> "Cybersecurity", role_ID |-> 4],
      [name |-> "Ian Perez", Department |-> "Operations", role_ID |-> 5],
      [name |-> "Jane Roberts", Department |-> "Finance", role_ID |-> 1],
      [name |-> "Kevin Phillips", Department |-> "IT", role_ID |-> 2],
      [name |-> "Laura Evans", Department |-> "HR", role_ID |-> 3],
      [name |-> "Mason Edwards", Department |-> "Cybersecurity", role_ID |-> 4],
      [name |-> "Natalie Collins", Department |-> "Operations", role_ID |-> 5],
      [name |-> "Oscar Stewart", Department |-> "Finance", role_ID |-> 1],
      [name |-> "Paul Morris", Department |-> "IT", role_ID |-> 2],
      [name |-> "Rebecca Nguyen", Department |-> "HR", role_ID |-> 3],
      [name |-> "Samuel Murphy", Department |-> "Cybersecurity", role_ID |-> 4],
      [name |-> "Tina Rivera", Department |-> "Operations", role_ID |-> 5],
      [name |-> "Ursula Foster", Department |-> "Finance", role_ID |-> 1],
      [name |-> "Vince Hayes", Department |-> "IT", role_ID |-> 2],
      [name |-> "Walter Perry", Department |-> "HR", role_ID |-> 3],
      [name |-> "Xenia Long", Department |-> "Cybersecurity", role_ID |-> 4],
      [name |-> "Yasmine Bryant", Department |-> "Operations", role_ID |-> 5],
      [name |-> "Zane Griffin", Department |-> "Finance", role_ID |-> 1],
      [name |-> "Ava Russell", Department |-> "Finance", role_ID |-> 1],
      [name |-> "Blake Simmons", Department |-> "IT", role_ID |-> 2],
      [name |-> "Cameron Barnes", Department |-> "HR", role_ID |-> 3],
      [name |-> "Diana Henderson", Department |-> "Cybersecurity", role_ID |-> 4],
      [name |-> "Ethan Coleman", Department |-> "Operations", role_ID |-> 5],
      [name |-> "Fiona Powell", Department |-> "Finance", role_ID |-> 1],
      [name |-> "Gavin Jenkins", Department |-> "IT", role_ID |-> 2],
      [name |-> "Hailey Patterson", Department |-> "HR", role_ID |-> 3],
      [name |-> "Isaiah Hughes", Department |-> "Cybersecurity", role_ID |-> 4]>>
\* endpoint_data (last_patch_date left out)
endpoint_data ==
    <<[employee_id |-> 1, os_name |-> "Windows", os_version |-> "11",
       antivirus_status |-> "Active"],
      [employee_id |-> 2, os_name |-> "Windows", os_version |-> "10",
       antivirus_status |-> "Active"],
      [employee_id |-> 3, os_name |-> "MacOS", os_version |-> "Sonoma",
       antivirus_status |-> "Active"],
      [employee_id |-> 4, os_name |-> "Windows", os_version |-> "7",
       antivirus_status |-> "Expired"],
      [employee_id |-> 5, os_name |-> "Linux", os_version |-> "Ubuntu 22.04",
       antivirus_status |-> "Active"],
      [employee_id |-> 6, os_name |-> "Windows", os_version |-> "10",
       antivirus_status |-> "Disabled"],
      [employee_id |-> 7, os_name |-> "Windows", os_version |-> "11",
       antivirus_status |-> "Active"],
      [employee_id |-> 8, os_name |-> "MacOS", os_version |-> "Ventura",
       antivirus_status |-> "Active"],
      [employee_id |-> 9, os_name |-> "Windows", os_version |-> "XP",
       antivirus_status |-> "Expired"],
      [employee_id |-> 10, os_name |-> "Windows", os_version |-> "11",
       antivirus_status |-> "Active"]>>
\* INSERT INTO Protocol_Data, ids given
Protocol_sql ==
    <<[protocol_id |-> 1, protocol_name |-> "HTTP"],
      [protocol_id |-> 2, protocol_name |-> "FTP"],
      [protocol_id |-> 3, protocol_name |-> "SSH"],
      [protocol_id |-> 4, protocol_name |-> "DNS"]>>
\* INSERT INTO Access_Type
Access_Type_sql ==
    <<[access_type_name |-> "Read"],
      [access_type_name |-> "Write"],
      [access_type_name |-> "Execute"],
      [access_type_name |-> "Modify"],
      [access_type_name |-> "Delete"],
      [access_type_name |-> "Create"],
      [access_type_name |-> "View"],
      [access_type_name |-> "Download"],
      [access_type_name |-> "Upload"],
      [access_type_name |-> "Share"]>>
\* INSERT INTO Permissions
Permissions_sql ==
    <<[permission_description |-> "View Reports"],
      [permission_description |-> "Edit Reports"],
      [permission_description |-> "Manage Users"],
      [permission_description |-> "Access Financial Data"],
      [permission_description |-> "Modify IT Infrastructure"],
      [permission_description |-> "Manage HR Records"],
      [permission_description |-> "Access Cybersecurity Systems"],
      [permission_description |-> "Monitor Security Alerts"],
      [permission_description |-> "Process Operations Requests"],
      [permission_description |-> "Approve Operational Changes"]>>
\* INSERT INTO Detected_By
Detected_By_sql ==
    <<[detected_by_name |-> "Security Team"],
      [detected_by_name |-> "Automated System"],
      [detected_by_name |-> "End User"],
      [detected_by_name |-> "Firewall System"]>>
\* INSERT INTO Detection_Method
Detection_Method_sql ==
    <<[detection_method_name |-> "Automated Monitoring"],
      [detection_method_name |-> "Intrusion Detection System"],
      [detection_method_name |-> "User Report"],
      [detection_method_name |-> "Firewall Alert"]>>
\* department_roles, flattened in dict order
department_roles ==
    <<[role_id |-> 1, role_name |-> "Junior Accountant"],
      [role_id |-> 2, role_name |-> "Mid Accountant"],
      [role_id |-> 3, role_name |-> "Senior Accountant"],
      [role_id |-> 4, role_name |-> "CFO"],
      [role_id |-> 5, role_name |-> "Finance Director"],
      [role_id |-> 6, role_name |-> "Junior IT Analyst"],
      [role_id |-> 7, role_name |-> "Mid IT Analyst"],
      [role_id |-> 8, role_name |-> "Senior IT Analyst"],
      [role_id |-> 9, role_name |-> "IT Manager"],
      [role_id |-> 10, role_name |-> "CTO"],
      [role_id |-> 11, role_name |-> "Junior HR Manager"],
      [role_id |-> 12, role_name |-> "Mid HR Manager"],
      [role_id |-> 13, role_name |-> "Senior HR Manager"],
      [role_id |-> 14, role_name |-> "HR Director"],
      [role_id |-> 15, role_name |-> "Chief HR Officer"],
      [role_id |-> 16, role_name |-> "Junior Cybersecurity Analyst"],
      [role_id |-> 17, role_name |-> "Mid Cybersecurity Analyst"],
      [role_id |-> 18, role_name |-> "Senior Cybersecurity Analyst"],
      [role_id |-> 19, role_name |-> "Cybersecurity Manager"],
      [role_id |-> 20, role_name |-> "Chief Security Officer"],
      [role_id |-> 21, role_name |-> "Junior Operations Analyst"],
      [role_id |-> 22, role_name |-> "Mid Operations Analyst"],
      [role_id |-> 23, role_name |-> "Senior Operations Analyst"],
      [role_id |-> 24, role_name |-> "Operations Manager"],
      [role_id |-> 25, role_name |-> "COO"]>>
\* role_ranges
role_ranges ==
    [Finance |-> <<1, 5>>, IT |-> <<6, 10>>, HR |-> <<11, 15>>,
     Cybersecurity |-> <<16, 20>>, Operations |-> <<21, 25>>]
\* permissions_for_employees, in dict order
permissions_for_employees ==
    <<[full_name |-> "Alice Johnson", permissions |-> <<6, 5>>],
      [full_name |-> "Amy Scott", permissions |-> <<1, 2>>],
      [full_name |-> "Bob Smith", permissions |-> <<1, 2>>],
      [full_name |-> "Brian Green", permissions |-> <<3, 4>>],
      [full_name |-> "David Wilson", permissions |-> <<7, 8>>],
      [full_name |-> "Frank Miller", permissions |-> <<4, 3>>],
      [full_name |-> "Gavin Jenkins", permissions |-> <<1, 2>>],
      [full_name |-> "Holly Mitchell", permissions |-> <<7, 8>>],
      [full_name |-> "Isaac Anderson", permissions |-> <<7, 8>>],
      [full_name |-> "Kevin Phillips", permissions |-> <<9, 10>>],
      [full_name |-> "Mia Martin", permissions |-> <<3, 4>>],
      [full_name |-> "Noah Thompson", permissions |-> <<7, 8>>],
      [full_name |-> "Oscar Stewart", permissions |-> <<6, 5>>],
      [full_name |-> "Quinn Robinson", permissions |-> <<9, 10>>],
      [full_name |-> "Xander Allen", permissions |-> <<7, 8>>]>>
\* INSERT INTO Network_Usage: the references of each row
NetworkInfo_sql ==
    <<[employee_id |-> 32, protocol_id |-> 1],
      [employee_id |-> 12, protocol_id |-> 2],
      [employee_id |-> 45, protocol_id |-> 3],
      [employee_id |-> 21, protocol_id |-> 1],
      [employee_id |-> 9, protocol_id |-> 4],
      [employee_id |-> 56, protocol_id |-> 2],
      [employee_id |-> 7, protocol_id |-> 3],
      [employee_id |-> 48, protocol_id |-> 1],
      [employee_id |-> 19, protocol_id |-> 4],
      [employee_id |-> 29, protocol_id |-> 2]>>
\* INSERT INTO File_Data
FileName_sql ==
    <<[file_name |-> "Sales_Report_2024_Q1.xlsx"],
      [file_name |-> "Employee_Records_2024.xlsx"],
      [file_name |-> "Budget_Overview_2024.xlsx"],
      [file_name |-> "Payroll_Data_2024.csv"],
      [file_name |-> "IT_Security_Protocols_2024.pdf"],
      [file_name |-> "Marketing_Budgets_2024.xlsx"]>>
\* a File_Access statement naming a seventh file
FileAccess_sql_NoFile ==
    <<[employee_id |-> 7, access_type_id |-> 4, file_id |-> 7]>>
\* INSERT INTO File_Access: the references of each row
FileAccess_sql ==
    <<[employee_id |-> 7, access_type_id |-> 4, file_id |-> 1],
      [employee_id |-> 2, access_type_id |-> 2, file_id |-> 2],
      [employee_id |-> 15, access_type_id |-> 6, file_id |-> 3],
      [employee_id |-> 30, access_type_id |-> 1, file_id |-> 4],
      [employee_id |-> 21, access_type_id |-> 5, file_id |-> 5],
      [employee_id |-> 12, access_type_id |-> 7, file_id |-> 6]>>
\* INSERT INTO Security_Incidents
Security_Incidents_sql ==
    <<[employee_id |-> 5, incident_type |-> "Unauthorized Access"],
      [employee_id |-> 12, incident_type |-> "Malware Infection"],
      [employee_id |-> 21, incident_type |-> "Phishing Attack"],
      [employee_id |-> 8, incident_type |-> "Data Breach"],
      [employee_id |-> 36, incident_type |-> "Password Compromise"],
      [employee_id |-> 40, incident_type |-> "Insider Threat"]>>
\* INSERT INTO Incident_Response: the reference of each row
Incident_Response_sql ==
    <<[incident_id |-> 1],
      [incident_id |-> 2],
      [incident_id |-> 3],
      [incident_id |-> 4],
      [incident_id |-> 5],
      [incident_id |-> 6]>>

AllTables ==
    {"Employee_Data", "Roles", "Permissions", "Roles_Permissions", "Endpoint_Security",
     "Protocol_Data", "Network_Usage", "Access_Type", "File_Data", "File_Access",
     "Security_Incidents", "Incident_Response", "Detection_Method", "Detected_By",
     "Incident_Detection"}
\* INTEGER PRIMARY KEY AUTOINCREMENT: the largest id the table holds or has
\* ever given out, 0 for a table that never held a row
LastId(t, rows, col) ==
    LET held == {rows[k][col] : k \in DOMAIN rows} \cup {sqlite_sequence[t]}
    IN CHOOSE m \in held : \A x \in held : x <= m
\* INSERT INTO t (...) VALUES ...: each row gets the next id
AutoInsert(t, rows, col, values) ==
    rows \o [k \in DOMAIN values |-> (col :> (LastId(t, rows, col) + k)) @@ values[k]]
\* FOREIGN KEY (col) REFERENCES parent(key), with PRAGMA foreign_keys = ON
References(values, col, parent, key) ==
    \A k \in DOMAIN values : \E p \in DOMAIN parent : parent[p][key] = values[k][col]

\* sqlite3.connect(SQLITE_DB_NAME) ... except: print, sys.exit(1)
ConnectSqlite ==
    /\ spc = "start"
    /\ \/ /\ cnxn' = "open"
          /\ spc' = "mongo"
          /\ UNCHANGED reported
       \/ /\ reported' = reported \cup {"[SQL] Connection failed"}
          /\ spc' = "exited"
          /\ UNCHANGED cnxn
    /\ UNCHANGED <<sqlStore, mongoStore, runVars, access_logs_data, mongoclient,
                   random, runs>>
\* the connection made with the two collections left as they are
ConnectMongoKeeps ==
    /\ spc = "mongo"
    /\ \/ /\ mongoclient' = "open"
          /\ UNCHANGED <<reported, mongoStore>>
       \/ /\ mongoclient' = "unbound"
          /\ reported' = reported \cup {"[NoSQL] MongoDB not found"}
          /\ UNCHANGED mongoStore
       \/ /\ mongoclient' = "down"
          /\ reported' = reported \cup {"[NoSQL] MongoDB not found"}
          /\ UNCHANGED mongoStore
    /\ spc' = "drop_tables"
    /\ UNCHANGED <<sqlStore, runVars, access_logs_data, cnxn, random, runs>>
\* try: pip install, MongoClient, drop() x2 ... except: print a warning
ConnectMongo ==
    /\ spc = "mongo"
    /\ \/ /\ mongoclient' = "open"
          /\ Access_logs' = <<>>
          /\ Phishing_attacks' = <<>>
          /\ UNCHANGED reported
       \/ \* check_call or MongoClient raised: the name is never bound
          /\ mongoclient' = "unbound"
          /\ reported' = reported \cup {"[NoSQL] MongoDB not found"}
          /\ UNCHANGED mongoStore
       \/ \* the first drop() raised: the name is bound, nothing was dropped
          /\ mongoclient' = "down"
          /\ reported' = reported \cup {"[NoSQL] MongoDB not found"}
          /\ UNCHANGED mongoStore
    /\ spc' = "drop_tables"
    /\ UNCHANGED <<sqlStore, runVars, access_logs_data, cnxn, random, runs>>
\* cursor.executescript(drop_tables_sql)
DropTables ==
    /\ spc = "drop_tables"
    /\ Employee_Data' = <<>> /\ File_Data' = <<>> /\ File_Access' = <<>>
    /\ Endpoint_Security' = <<>> /\ Protocol_Data' = <<>> /\ Network_Usage' = <<>>
    /\ Security_Incidents' = <<>> /\ Incident_Response' = <<>> /\ Roles' = <<>>
    /\ Permissions' = <<>> /\ Roles_Permissions' = <<>> /\ Access_Type' = <<>>
    /\ Detection_Method' = <<>> /\ Detected_By' = <<>> /\ Incident_Detection' = <<>>
    /\ tables' = {}
    /\ sqlite_sequence' = [t \in AllTables |-> 0]
    /\ spc' = "create_tables"
    /\ UNCHANGED <<mongoStore, runVars, access_logs_data, cnxn, mongoclient, reported,
                   random, runs>>

\* cursor.executescript(create_tables_sql)
CreateTables ==
    /\ spc = "create_tables"
    /\ tables' = AllTables
    /\ spc' = "employees"
    /\ UNCHANGED <<Employee_Data, File_Data, File_Access, Endpoint_Security,
                   Protocol_Data, Network_Usage, Security_Incidents, Incident_Response,
                   Roles, Permissions, Roles_Permissions, Access_Type,
                   Detection_Method, Detected_By, Incident_Detection, sqlite_sequence,
                   mongoStore, runVars, access_logs_data, cnxn, mongoclient, reported,
                   random, runs>>
\* cursor.execute(EmpNames_sql)
InsertEmployees ==
    /\ spc = "employees"
    /\ Employee_Data' =
          AutoInsert("Employee_Data", Employee_Data, "employee_id", EmpNames_sql)
    /\ sqlite_sequence' =
          [sqlite_sequence EXCEPT !["Employee_Data"] =
              LastId("Employee_Data", Employee_Data, "employee_id") + Len(EmpNames_sql)]
    /\ spc' = "endpoints"
    /\ UNCHANGED <<File_Data, File_Access, Endpoint_Security, Protocol_Data,
                   Network_Usage, Security_Incidents, Incident_Response, Roles,
                   Permissions, Roles_Permissions, Access_Type, Detection_Method,
                   Detected_By, Incident_Detection, tables, mongoStore, runVars,
                   access_logs_data, cnxn, mongoclient, reported, random, runs>>

\* cursor.executemany(INSERT INTO Endpoint_Security ..., endpoint_data)
InsertEndpoints ==
    /\ spc = "endpoints"
    /\ IF References(endpoint_data, "employee_id", Employee_Data, "employee_id")
       THEN /\ Endpoint_Security' =
                     AutoInsert("Endpoint_Security", Endpoint_Security, "device_id", endpoint_data)
            /\ sqlite_sequence' =
                  [sqlite_sequence EXCEPT !["Endpoint_Security"] =
                      LastId("Endpoint_Security", Endpoint_Security, "device_id")
                          + Len(endpoint_data)]
            /\ spc' = "lookups"
       ELSE /\ spc' = "integrity_error"
            /\ UNCHANGED <<Endpoint_Security, sqlite_sequence>>
    /\ UNCHANGED <<Employee_Data, File_Data, File_Access, Protocol_Data, Network_Usage,
                   Security_Incidents, Incident_Response, Roles, Permissions,
                   Roles_Permissions, Access_Type, Detection_Method, Detected_By,
                   Incident_Detection, tables, mongoStore, runVars, access_logs_data,
                   cnxn, mongoclient, reported, random, runs>>

\* 3. Protocol & Access Data: five INSERT statements into tables without
\* references
InsertLookups ==
    /\ spc = "lookups"
    /\ Protocol_Data' = Protocol_Data \o Protocol_sql
    /\ Access_Type' = AutoInsert("Access_Type", Access_Type, "access_type_id", Access_Type_sql)
    /\ Permissions' = AutoInsert("Permissions", Permissions, "permission_id", Permissions_sql)
    /\ Detected_By' = AutoInsert("Detected_By", Detected_By, "detected_by_id", Detected_By_sql)
    /\ Detection_Method' = AutoInsert("Detection_Method", Detection_Method,
                                      "detection_method_id", Detection_Method_sql)
    /\ sqlite_sequence' =
          [sqlite_sequence EXCEPT
              !["Access_Type"] = LastId("Access_Type", Access_Type, "access_type_id")
                                     + Len(Access_Type_sql),
              !["Permissions"] = LastId("Permissions", Permissions, "permission_id")
                                     + Len(Permissions_sql),
              !["Detected_By"] = LastId("Detected_By", Detected_By, "detected_by_id")
                                     + Len(Detected_By_sql),
              !["Detection_Method"] = LastId("Detection_Method", Detection_Method,
                                             "detection_method_id")
                                          + Len(Detection_Method_sql)]
    /\ spc' = "roles"
    /\ UNCHANGED <<Employee_Data, File_Data, File_Access, Endpoint_Security,
                   Network_Usage, Security_Incidents, Incident_Response, Roles,
                   Roles_Permissions, Incident_Detection, tables, mongoStore, runVars,
                   access_logs_data, cnxn, mongoclient, reported, random, runs>>
\* DELETE FROM Roles, then one INSERT with its role_ID given per entry of
\* department_roles
InsertRoles ==
    /\ spc = "roles"
    /\ Roles' = department_roles
    /\ sqlite_sequence' =
          [sqlite_sequence EXCEPT !["Roles"] =
              LastId("Roles", department_roles, "role_id")]
    /\ spc' = "assign"
    /\ UNCHANGED <<Employee_Data, File_Data, File_Access, Endpoint_Security,
                   Protocol_Data, Network_Usage, Security_Incidents, Incident_Response,
                   Permissions, Roles_Permissions, Access_Type, Detection_Method,
                   Detected_By, Incident_Detection, tables, mongoStore, runVars,
                   access_logs_data, cnxn, mongoclient, reported, random, runs>>
\* a draw from the first range whatever the department
randintFirstRange(range, k) == 1 + random.roles[k]
\* random.randint(*role_ranges[department]), the k-th call of the loop
randint(range, k) == range[1] + random.roles[k]
\* for employee_id, email, department in employees: UPDATE ... SET role_ID
AssignRoles ==
    /\ spc = "assign"
    /\ Employee_Data' =
          [k \in DOMAIN Employee_Data |->
              IF Employee_Data[k].Department \in DOMAIN role_ranges
              THEN [Employee_Data[k] EXCEPT
                       !.role_ID = randint(role_ranges[Employee_Data[k].Department], k)]
              ELSE Employee_Data[k]]
    /\ spc' = "link"
    /\ UNCHANGED <<File_Data, File_Access, Endpoint_Security, Protocol_Data,
                   Network_Usage, Security_Incidents, Incident_Response, Roles,
                   Permissions, Roles_Permissions, Access_Type, Detection_Method,
                   Detected_By, Incident_Detection, tables, sqlite_sequence,
                   mongoStore, runVars, access_logs_data, cnxn, mongoclient, reported,
                   random, runs>>
\* SELECT role_ID ... WHERE first_name = ? AND last_name = ?, fetchone()
RowsOfName(full_name) == {k \in DOMAIN Employee_Data : Employee_Data[k].name = full_name}
RoleOfName(full_name) ==
    Employee_Data[CHOOSE k \in RowsOfName(full_name) :
                      \A j \in RowsOfName(full_name) : k <= j].role_ID
\* the (full_name, permission_id) pairs in the order the two loops visit them
LinkPairs ==
    [i \in 1..(2 * Len(permissions_for_employees)) |->
        [full_name |-> permissions_for_employees[(i + 1) \div 2].full_name,
         permission_id |->
             permissions_for_employees[(i + 1) \div 2].permissions[2 - (i % 2)]]]
\* if COUNT(*) = 0: INSERT INTO Roles_Permissions, from pair i on
RECURSIVE Link(_, _)
Link(rp, i) ==
    IF i > Len(LinkPairs) THEN rp
    ELSE IF RowsOfName(LinkPairs[i].full_name) = {}    \* if result: (is None)
    THEN Link(rp, i + 1)
    ELSE LET row == [role_id |-> RoleOfName(LinkPairs[i].full_name),
                     permission_id |-> LinkPairs[i].permission_id]
         IN IF \E k \in DOMAIN rp : rp[k] = row
            THEN Link(rp, i + 1)
            ELSE Link(Append(rp, row), i + 1)
LinkPermissions ==
    /\ spc = "link"
    /\ \E linked \in {Link(Roles_Permissions, 1)} :
          IF /\ References(linked, "role_id", Roles, "role_id")
             /\ References(linked, "permission_id", Permissions, "permission_id")
          THEN Roles_Permissions' = linked /\ spc' = "network"
          ELSE spc' = "integrity_error" /\ UNCHANGED Roles_Permissions
    /\ UNCHANGED <<Employee_Data, File_Data, File_Access, Endpoint_Security,
                   Protocol_Data, Network_Usage, Security_Incidents, Incident_Response,
                   Roles, Permissions, Access_Type, Detection_Method, Detected_By,
                   Incident_Detection, tables, sqlite_sequence, mongoStore, runVars,
                   access_logs_data, cnxn, mongoclient, reported, random, runs>>
\* cursor.executescript(NetworkInfo_sql)
InsertNetwork ==
    /\ spc = "network"
    /\ IF /\ References(NetworkInfo_sql, "employee_id", Employee_Data, "employee_id")
          /\ References(NetworkInfo_sql, "protocol_id", Protocol_Data, "protocol_id")
       THEN /\ Network_Usage' =
                     AutoInsert("Network_Usage", Network_Usage, "network_usage_id", NetworkInfo_sql)
            /\ sqlite_sequence' =
                  [sqlite_sequence EXCEPT !["Network_Usage"] =
                      LastId("Network_Usage", Network_Usage, "network_usage_id")
                          + Len(NetworkInfo_sql)]
            /\ spc' = "file_data"
       ELSE /\ spc' = "integrity_error"
            /\ UNCHANGED <<Network_Usage, sqlite_sequence>>
    /\ UNCHANGED <<Employee_Data, File_Data, File_Access, Endpoint_Security,
                   Protocol_Data, Security_Incidents, Incident_Response, Roles,
                   Permissions, Roles_Permissions, Access_Type, Detection_Method,
                   Detected_By, Incident_Detection, tables, mongoStore, runVars,
                   access_logs_data, cnxn, mongoclient, reported, random, runs>>

\* cursor.executescript(FileName_sql)
InsertFileData ==
    /\ spc = "file_data"
    /\ File_Data' =
          AutoInsert("File_Data", File_Data, "file_id", FileName_sql)
    /\ sqlite_sequence' =
          [sqlite_sequence EXCEPT !["File_Data"] =
              LastId("File_Data", File_Data, "file_id") + Len(FileName_sql)]
    /\ spc' = "file_access"
    /\ UNCHANGED <<Employee_Data, File_Access, Endpoint_Security, Protocol_Data,
                   Network_Usage, Security_Incidents, Incident_Response, Roles,
                   Permissions, Roles_Permissions, Access_Type, Detection_Method,
                   Detected_By, Incident_Detection, tables, mongoStore, runVars,
                   access_logs_data, cnxn, mongoclient, reported, random, runs>>

\* cursor.executescript(FileAccess_sql)
InsertFileAccess ==
    /\ spc = "file_access"
    /\ IF /\ References(FileAccess_sql, "employee_id", Employee_Data, "employee_id")
          /\ References(FileAccess_sql, "access_type_id", Access_Type, "access_type_id")
          /\ References(FileAccess_sql, "file_id", File_Data, "file_id")
       THEN /\ File_Access' = AutoInsert("File_Access", File_Access, "access_id", FileAccess_sql)
            /\ sqlite_sequence' =
                  [sqlite_sequence EXCEPT !["File_Access"] =
                      LastId("File_Access", File_Access, "access_id") + Len(FileAccess_sql)]
            /\ spc' = "incidents"
       ELSE /\ spc' = "integrity_error"
            /\ UNCHANGED <<File_Access, sqlite_sequence>>
    /\ UNCHANGED <<Employee_Data, File_Data, Endpoint_Security, Protocol_Data,
                   Network_Usage, Security_Incidents, Incident_Response, Roles,
                   Permissions, Roles_Permissions, Access_Type, Detection_Method,
                   Detected_By, Incident_Detection, tables, mongoStore, runVars,
                   access_logs_data, cnxn, mongoclient, reported, random, runs>>

\* cursor.executescript(Security_Incidents_sql)
InsertIncidents ==
    /\ spc = "incidents"
    /\ IF References(Security_Incidents_sql, "employee_id", Employee_Data, "employee_id")
       THEN /\ Security_Incidents' =
                     AutoInsert("Security_Incidents", Security_Incidents, "incident_id",
                                Security_Incidents_sql)
            /\ sqlite_sequence' =
                  [sqlite_sequence EXCEPT !["Security_Incidents"] =
                      LastId("Security_Incidents", Security_Incidents, "incident_id")
                          + Len(Security_Incidents_sql)]
            /\ spc' = "responses"
       ELSE /\ spc' = "integrity_error"
            /\ UNCHANGED <<Security_Incidents, sqlite_sequence>>
    /\ UNCHANGED <<Employee_Data, File_Data, File_Access, Endpoint_Security,
                   Protocol_Data, Network_Usage, Incident_Response, Roles, Permissions,
                   Roles_Permissions, Access_Type, Detection_Method, Detected_By,
                   Incident_Detection, tables, mongoStore, runVars, access_logs_data,
                   cnxn, mongoclient, reported, random, runs>>

\* cursor.executescript(Incident_Response_sql)
InsertResponses ==
    /\ spc = "responses"
    /\ IF References(Incident_Response_sql, "incident_id", Security_Incidents, "incident_id")
       THEN /\ Incident_Response' =
                     AutoInsert("Incident_Response", Incident_Response, "incident_response_id",
                                Incident_Response_sql)
            /\ sqlite_sequence' =
                  [sqlite_sequence EXCEPT !["Incident_Response"] =
                      LastId("Incident_Response", Incident_Response, "incident_response_id")
                          + Len(Incident_Response_sql)]
            /\ spc' = "commit"
       ELSE /\ spc' = "integrity_error"
            /\ UNCHANGED <<Incident_Response, sqlite_sequence>>
    /\ UNCHANGED <<Employee_Data, File_Data, File_Access, Endpoint_Security,
                   Protocol_Data, Network_Usage, Security_Incidents, Roles,
                   Permissions, Roles_Permissions, Access_Type, Detection_Method,
                   Detected_By, Incident_Detection, tables, mongoStore, runVars,
                   access_logs_data, cnxn, mongoclient, reported, random, runs>>

\* cnxn.commit(); if 'mongoclient' in locals() and mongoclient is not None
Commit ==
    /\ spc = "commit"
    /\ spc' = IF mongoclient = "unbound" THEN "cleanup" ELSE "hand_made"
    /\ UNCHANGED <<sqlStore, mongoStore, runVars, access_logs_data, cnxn, mongoclient,
                   reported, random, runs>>
\* =========================================================================
\*  setup_all_databases.py, section C: the access logs and the phishing documents
\* =========================================================================
\* datetime.now(): the run takes less than one tick (a minute) of the
\* model's clock, so every call of a run reads the same minute.
datetime_now == 0
HourMinutes == 60      \* timedelta(hours=1)
DayMinutes == 1440     \* timedelta(days=1)
statuses == <<"Successful", "Failed">>
\* the script's list has six places in five countries
locations == <<Loc("London", "UK"), Loc("Manchester", "UK"),
               Loc("Berlin", "Germany"), Loc("Tokyo", "Japan")>>

Entry(id, t, loc, st) == [_ID |-> id, TIMESTAMP |-> t, LOCATION |-> loc, STATUS |-> st]
\* the second hand-made entry placed in London as well
SecondEntryLondon == Entry("EMP001", datetime_now + HourMinutes, Loc("London", "UK"), "Successful")
LondonEntry == Entry("EMP001", datetime_now, Loc("London", "UK"), "Successful")
TokyoEntry == Entry("EMP001", datetime_now + HourMinutes, Loc("Tokyo", "Japan"), "Successful")

\* insert_many: each document gets its _id, in list order
Inserted(coll, docs) ==
    coll \o [k \in DOMAIN docs |->
                [_id |-> Len(coll) + k, _ID |-> docs[k]._ID,
                 TIMESTAMP |-> docs[k].TIMESTAMP, LOCATION |-> docs[k].LOCATION,
                 STATUS |-> docs[k].STATUS]]

AppendHandMade ==
    /\ spc = "hand_made"
    /\ access_logs_data' = <<LondonEntry, TokyoEntry>>
    /\ spc' = "bulk"
    /\ UNCHANGED <<sqlStore, mongoStore, runVars, setupVars>>

BulkLoop ==
    /\ spc = "bulk"
    /\ Len(access_logs_data) < 2 + BulkCount
    /\ \E id \in Range(all_ids), days \in 0..MaxDays,
          loc \in Range(locations), st \in Range(statuses) :
            access_logs_data' =
                Append(access_logs_data,
                       Entry(id, datetime_now - days * DayMinutes, loc, st))
    /\ UNCHANGED <<sqlStore, mongoStore, runVars, spc, setupVars>>

InsertMany ==
    /\ spc = "bulk"
    /\ Len(access_logs_data) = 2 + BulkCount
    /\ mongoclient = "open"
    /\ Access_logs' = Inserted(Access_logs, access_logs_data)
    /\ spc' = "logs_inserted"
    /\ UNCHANGED <<sqlStore, Phishing_attacks, runVars, access_logs_data, setupVars>>

\* insert_many with no server to reach: the exception is not caught
InsertManyRaises ==
    /\ spc = "bulk"
    /\ Len(access_logs_data) = 2 + BulkCount
    /\ mongoclient = "down"
    /\ spc' = "crashed"
    /\ UNCHANGED <<sqlStore, mongoStore, runVars, access_logs_data, setupVars>>

\* phishing_data = [... for i in range(1, 101)]; phishing.insert_many
InsertPhishing ==
    /\ spc = "logs_inserted"
    /\ Phishing_attacks' =
          Phishing_attacks \o
              [i \in 1..PhishCount |->
                  [_id |-> Len(Phishing_attacks) + i, PHISHING_ID |-> i,
                   _ID |-> random.phishing[i]._ID,
                   ANOMALY_SCORE |-> random.phishing[i].ANOMALY_SCORE,
                   LINK_CLICKED |-> random.phishing[i].LINK_CLICKED]]
    /\ spc' = "cleanup"
    /\ UNCHANGED <<sqlStore, Access_logs, runVars, access_logs_data, setupVars>>

\* cursor.close(); cnxn.close(); mongoclient.close() if the name is bound
CleanupSeed ==
    /\ spc = "cleanup"
    /\ cnxn' = "closed"
    /\ mongoclient' = IF mongoclient = "unbound" THEN "unbound" ELSE "closed"
    /\ runs' = runs + 1
    /\ spc' = "done"
    /\ UNCHANGED <<sqlStore, mongoStore, runVars, access_logs_data, reported, random>>

NextSeed ==
    \/ ConnectSqlite \/ ConnectMongo
    \/ DropTables \/ CreateTables
    \/ InsertEmployees \/ InsertEndpoints \/ InsertLookups
    \/ InsertRoles \/ AssignRoles \/ LinkPermissions
    \/ InsertNetwork \/ InsertFileData \/ InsertFileAccess
    \/ InsertIncidents \/ InsertResponses \/ Commit
    \/ AppendHandMade \/ BulkLoop \/ InsertMany \/ InsertManyRaises
    \/ InsertPhishing \/ CleanupSeed

\* =========================================================================
\*  Store contents
\* =========================================================================
\* The first employees of EmpNames_sql, one per department the checks name.
Employee_Data0 ==
    <<[employee_id |-> 1, name |-> "Alice Johnson", Department |-> "Finance"],
      [employee_id |-> 2, name |-> "Bob Smith", Department |-> "IT"],
      [employee_id |-> 3, name |-> "Charlie Brown", Department |-> "HR"],
      [employee_id |-> 4, name |-> "David Wilson", Department |-> "Cybersecurity"]>>

Q1_Budget_Review_xlsx ==
    <<"Q", "1", "_", "B", "u", "d", "g", "e", "t", "_", "R", "e", "v", "i", "e", "w",
      ".", "x", "l", "s", "x">>
Q1_Sales_xlsx == <<"Q", "1", "_", "S", "a", "l", "e", "s", ".", "x", "l", "s", "x">>
Budget_xlsx == <<"B", "u", "d", "g", "e", "t", ".", "x", "l", "s", "x">>
budget_xlsx == <<"b", "u", "d", "g", "e", "t", ".", "x", "l", "s", "x">>
Payroll_Data_2024_csv ==
    <<"P", "a", "y", "r", "o", "l", "l", "_", "D", "a", "t", "a", "_", "2", "0", "2", "4",
      ".", "c", "s", "v">>
PAYROLL_csv == <<"P", "A", "Y", "R", "O", "L", "L", ".", "c", "s", "v">>
File_Data0 ==
    <<[file_id |-> 1, file_name |-> Q1_Budget_Review_xlsx],
      [file_id |-> 2, file_name |-> Q1_Sales_xlsx],
      [file_id |-> 3, file_name |-> Budget_xlsx],
      [file_id |-> 4, file_name |-> budget_xlsx],
      [file_id |-> 5, file_name |-> Payroll_Data_2024_csv],
      [file_id |-> 6, file_name |-> PAYROLL_csv]>>

\* Two protocols of the script and a third row that repeats a name.
Protocol_Data0 ==
    <<[protocol_id |-> 1, protocol_name |-> "HTTP"],
      [protocol_id |-> 2, protocol_name |-> "FTP"],
      [protocol_id |-> 3, protocol_name |-> "FTP"]>>

Security_Incidents0 ==
    <<[incident_id |-> 1, employee_id |-> 2, incident_type |-> "Unauthorized Access"],
      [incident_id |-> 2, employee_id |-> 3, incident_type |-> "Malware Infection"]>>
Incident_Response0 ==
    <<[incident_response_id |-> 1, incident_id |-> 1,
       response_start_time |-> 510, response_end_time |-> 540],
      [incident_response_id |-> 2, incident_id |-> 2,
       response_start_time |-> 765, response_end_time |-> 810]>>

FileAccessRow(k, emp, t, file) ==
    [access_id |-> k, employee_id |-> emp, access_type_id |-> 1,
     timestamp |-> t, file_id |-> file]
EndpointRow(k, emp, version, status) ==
    [device_id |-> k, employee_id |-> emp, os_name |-> "Windows",
     os_version |-> version, antivirus_status |-> status]
NetworkRow(k, emp, mb, protocol) ==
    [network_usage_id |-> k, employee_id |-> emp, timestamp |-> Time(10, 5),
     data_transfered_MB |-> mb, protocol_id |-> protocol]
LogDoc(k, id, t, loc, st) ==
    [_id |-> k, _ID |-> id, TIMESTAMP |-> t, LOCATION |-> loc, STATUS |-> st]
PhishDoc(k, score, clicked) ==
    [_id |-> k, _ID |-> "EMP001", ANOMALY_SCORE |-> score, LINK_CLICKED |-> clicked]

\* One of each, every check finding something.
File_Access1 == <<FileAccessRow(1, 2, Time(21, 24), 1)>>
Endpoint_Security1 == <<EndpointRow(1, 4, "7", "Expired")>>
Network_Usage1 == <<NetworkRow(1, 2, 150, 2)>>
Access_logs1 ==
    <<LogDoc(1, "EMP001", 0, Loc("London", "UK"), "Failed"),
      LogDoc(2, "EMP001", 60, Loc("Tokyo", "Japan"), "Failed")>>
Access_logs_NoLocation ==
    <<LogDoc(1, "EMP001", 0, LocMissing, "Failed"),
      LogDoc(2, "EMP001", 60, LocMissing, "Successful")>>
Phishing_attacks1 == <<PhishDoc(1, 81, TRUE)>>

\* the parent tables, and the child tables and collections as given
Stores(fa, es, nu, ir, al, ph) ==
    /\ Employee_Data = Employee_Data0
    /\ File_Data = File_Data0
    /\ Protocol_Data = Protocol_Data0
    /\ Security_Incidents = Security_Incidents0
    /\ File_Access = fa
    /\ Endpoint_Security = es
    /\ Network_Usage = nu
    /\ Incident_Response = ir
    /\ Access_logs = al
    /\ Phishing_attacks = ph

\* analysis.py about to start, the seeding script not running
RunStarts(r) ==
    /\ pc = "connect"
    /\ raises = r
    /\ attempted = <<>>
    /\ out = [i \in Checks |-> NoOutput]
    /\ banner = FALSE
    /\ sql_conn = "none"
    /\ mongo_client = "none"
    /\ spc = "off"
    /\ access_logs_data = <<>>
    \* the tables no check reads, and the seeding script's own state
    /\ Roles = <<>> /\ Permissions = <<>> /\ Roles_Permissions = <<>>
    /\ Access_Type = <<>> /\ Detection_Method = <<>> /\ Detected_By = <<>>
    /\ Incident_Detection = <<>>
    /\ tables = AllTables
    /\ sqlite_sequence = [t \in AllTables |-> 0]
    /\ cnxn = "none"
    /\ mongoclient = "unbound"
    /\ reported = {}
    /\ random = [roles |-> <<>>, phishing |-> <<>>]
    /\ runs = 0

\* ---- File_Access rows at the hour boundaries, some of no employee
TimeSamples == {Time(0, 0), Time(7, 59), Time(8, 0), Time(19, 59),
                Time(20, 0), Time(23, 59), BadTime}
InitInsider ==
    \E draw \in SeqsUpTo(({2} \X TimeSamples) \cup {<<9, Time(23, 59)>>}, MaxRows) :
        /\ Stores([k \in DOMAIN draw |-> FileAccessRow(k, draw[k][1], draw[k][2], 2)],
                  <<>>, <<>>, <<>>, <<>>, <<>>)
        /\ RunStarts({})

\* ---- File_Access rows over departments and file names
InitRbac ==
    \E draw \in SeqsUpTo(({2} \X (1..6)) \cup ({1} \X {3, 4}) \cup {<<3, 5>>, <<9, 1>>, <<2, 9>>},
                         MaxRows) :
        /\ Stores([k \in DOMAIN draw |->
                      FileAccessRow(k, draw[k][1], Time(12, 0), draw[k][2])],
                  <<>>, <<>>, <<>>, <<>>, <<>>)
        /\ RunStarts({})

\* ---- Endpoint_Security rows over versions and statuses, NULL included
InitVuln ==
    \E draw \in SeqsUpTo(({1} \X {"11", "XP", "7", NULL} \X {"Active", "Disabled", NULL})
                         \cup {<<9, "XP", "Disabled">>}, MaxRows) :
        /\ Stores(<<>>,
                  [k \in DOMAIN draw |->
                      EndpointRow(k, draw[k][1], draw[k][2], draw[k][3])],
                  <<>>, <<>>, <<>>, <<>>)
        /\ RunStarts({})

\* ---- Network_Usage rows around the 100 MB threshold
InitExfil ==
    \E draw \in SeqsUpTo(({1} \X {40, 60, 101} \X {1, 2, 3})
                         \cup {<<2, 60, 1>>, <<9, 150, 1>>, <<1, 150, 9>>}, MaxRows) :
        /\ Stores(<<>>, <<>>,
                  [k \in DOMAIN draw |->
                      NetworkRow(k, draw[k][1], draw[k][2], draw[k][3])],
                  <<>>, <<>>, <<>>)
        /\ RunStarts({})

\* ---- Access_logs documents over subjects and statuses
InitFailLogs ==
    \E draw \in SeqsUpTo(Range(all_ids) \X Range(statuses), MaxFailLogs) :
        /\ Stores(<<>>, <<>>, <<>>, <<>>,
                  [k \in DOMAIN draw |->
                      LogDoc(k, draw[k][1], k, Loc("London", "UK"), draw[k][2])],
                  <<>>)
        /\ RunStarts({})

\* ---- Access_logs documents over subjects, times and countries
InitTravel ==
    \E draw \in SeqsUpTo(({"EMP001"} \X {1, 2}
                             \X {Loc("London", "UK"), Loc("Tokyo", "Japan"), LocNoCountry})
                         \cup ({"VEND01"} \X {1}
                             \X {Loc("London", "UK"), Loc("Tokyo", "Japan")}),
                         MaxTravelLogs) :
        /\ Stores(<<>>, <<>>, <<>>, <<>>,
                  [k \in DOMAIN draw |->
                      LogDoc(k, draw[k][1], draw[k][2], draw[k][3], "Successful")],
                  <<>>)
        /\ RunStarts({})

\* ---- Phishing_attacks documents around the 0.8 threshold
InitPhish ==
    \E draw \in SeqsUpTo({79, 80, 81} \X BOOLEAN, MaxPhish) :
        /\ Stores(<<>>, <<>>, <<>>, <<>>, <<>>,
                  [k \in DOMAIN draw |-> PhishDoc(k, draw[k][1], draw[k][2])])
        /\ RunStarts({})

\* ---- every set of raising reads, over empty and over non-empty stores
InitRaises ==
    \E r \in SUBSET Checks :
        /\ \/ Stores(<<>>, <<>>, <<>>, <<>>, <<>>, <<>>)
           \/ Stores(File_Access1, Endpoint_Security1, Network_Usage1,
                     Incident_Response0, Access_logs1, Phishing_attacks1)
           \/ Stores(File_Access1, Endpoint_Security1, Network_Usage1,
                     Incident_Response0, Access_logs_NoLocation, Phishing_attacks1)
        /\ RunStarts(r)

Init ==
    \/ InitInsider
    \/ InitRbac
    \/ InitVuln
    \/ InitExfil
    \/ InitFailLogs
    \/ InitTravel
    \/ InitPhish
    \/ InitRaises

\* analysis.py over the stores it finds
Spec == Init /\ [][Next]_vars

\* ---- the seeding script about to start, analysis.py not running
SeedStarts(r) ==
    /\ pc = "off"
    /\ raises = {}
    /\ attempted = <<>>
    /\ out = [i \in Checks |-> NoOutput]
    /\ banner = FALSE
    /\ sql_conn = "none"
    /\ mongo_client = "none"
    /\ spc = "start"
    /\ access_logs_data = <<>>
    /\ cnxn = "none"
    /\ mongoclient = "unbound"
    /\ reported = {}
    /\ random = r

\* a database file that does not exist yet, and empty collections
FreshStores ==
    /\ Employee_Data = <<>> /\ File_Data = <<>> /\ File_Access = <<>>
    /\ Endpoint_Security = <<>> /\ Protocol_Data = <<>> /\ Network_Usage = <<>>
    /\ Security_Incidents = <<>> /\ Incident_Response = <<>> /\ Roles = <<>>
    /\ Permissions = <<>> /\ Roles_Permissions = <<>> /\ Access_Type = <<>>
    /\ Detection_Method = <<>> /\ Detected_By = <<>> /\ Incident_Detection = <<>>
    /\ tables = {}
    /\ sqlite_sequence = [t \in AllTables |-> 0]
    /\ Access_logs = <<>>
    /\ Phishing_attacks = <<>>
    /\ runs = 0

\* the rows of values numbered from 1 in column col
Numbered(col, values) == [k \in DOMAIN values |-> (col :> k) @@ values[k]]
\* the stores as an earlier complete run left them (every role drawn at the
\* low end of its range, VEND01 drawn by the bulk loop)
SeededStores ==
    /\ Employee_Data =
          [k \in DOMAIN EmpNames_sql |->
              [employee_id |-> k, name |-> EmpNames_sql[k].name,
               Department |-> EmpNames_sql[k].Department,
               role_ID |-> role_ranges[EmpNames_sql[k].Department][1]]]
    /\ Endpoint_Security = Numbered("device_id", endpoint_data)
    /\ Protocol_Data = Protocol_sql
    /\ Access_Type = Numbered("access_type_id", Access_Type_sql)
    /\ Permissions = Numbered("permission_id", Permissions_sql)
    /\ Detected_By = Numbered("detected_by_id", Detected_By_sql)
    /\ Detection_Method = Numbered("detection_method_id", Detection_Method_sql)
    /\ Roles = department_roles
    /\ Roles_Permissions = Link(<<>>, 1)
    /\ Network_Usage = Numbered("network_usage_id", NetworkInfo_sql)
    /\ File_Data = Numbered("file_id", FileName_sql)
    /\ File_Access = Numbered("access_id", FileAccess_sql)
    /\ Security_Incidents = Numbered("incident_id", Security_Incidents_sql)
    /\ Incident_Response = Numbered("incident_response_id", Incident_Response_sql)
    /\ Incident_Detection = <<>>
    /\ tables = AllTables
    /\ sqlite_sequence =
          [t \in AllTables |->
              CASE t = "Employee_Data" -> Len(EmpNames_sql)
                [] t = "Endpoint_Security" -> Len(endpoint_data)
                [] t = "Access_Type" -> Len(Access_Type_sql)
                [] t = "Permissions" -> Len(Permissions_sql)
                [] t = "Detected_By" -> Len(Detected_By_sql)
                [] t = "Detection_Method" -> Len(Detection_Method_sql)
                [] t = "Roles" -> Len(department_roles)
                [] t = "Network_Usage" -> Len(NetworkInfo_sql)
                [] t = "File_Data" -> Len(FileName_sql)
                [] t = "File_Access" -> Len(FileAccess_sql)
                [] t = "Security_Incidents" -> Len(Security_Incidents_sql)
                [] t = "Incident_Response" -> Len(Incident_Response_sql)
                [] OTHER -> 0]
    /\ Access_logs =
          Inserted(<<>>, <<LondonEntry, TokyoEntry>> \o
                         [k \in 1..BulkCount |->
                             Entry("VEND01", datetime_now, Loc("Berlin", "Germany"),
                                   "Failed")])
    /\ Phishing_attacks =
          [i \in 1..PhishCount |->
              [_id |-> i, PHISHING_ID |-> i, _ID |-> "EMP001",
               ANOMALY_SCORE |-> 81, LINK_CLICKED |-> TRUE]]
    /\ runs = 1

\* what random.randint returns above the low end of the range, per employee:
\* every offset for every employee, and all employees at one end
RolePicks ==
    {[k \in DOMAIN EmpNames_sql |-> (k + b) % 5] : b \in 0..4}
        \cup {[k \in DOMAIN EmpNames_sql |-> b] : b \in {0, 4}}
\* what the phishing comprehension draws per document
PhishingDraws ==
    [1..PhishCount -> {[_ID |-> "EMP001", ANOMALY_SCORE |-> 81, LINK_CLICKED |-> TRUE],
                       [_ID |-> "VEND01", ANOMALY_SCORE |-> 50, LINK_CLICKED |-> FALSE]}]

InitSeed ==
    LET PhishingLow == [i \in 1..PhishCount |->
                           [_ID |-> "VEND01", ANOMALY_SCORE |-> 50, LINK_CLICKED |-> FALSE]]
        RolesLow == [k \in DOMAIN EmpNames_sql |-> 0]
    IN \/ \* a first run, over the role draws
          /\ FreshStores
          /\ \E roles \in RolePicks : SeedStarts([roles |-> roles, phishing |-> PhishingLow])
       \/ \* a first run, over the phishing draws
          /\ FreshStores
          /\ \E phishing \in PhishingDraws \ {PhishingLow} :
                SeedStarts([roles |-> RolesLow, phishing |-> phishing])
       \/ \* a run over the stores an earlier run left
          /\ SeededStores
          /\ \E roles \in {r \in RolePicks : r[1] = r[2]} :
                SeedStarts([roles |-> roles, phishing |-> PhishingLow])

SpecSeed == InitSeed /\ [][NextSeed]_vars

\* =========================================================================
\*  Properties
\* =========================================================================
\* check i entered its try block and its read did not raise
ReadOk(i) == i \in Range(attempted) /\ out[i] # ErrorOutput
RowIds(rows) == {rows[k]._id : k \in DOMAIN rows}

\* ---------------------------------------------------------------------- C1
\* C1: once use case 1 has read, a File_Access row of an existing employee
\* is in its result exactly if the hour of its timestamp is below 08 or at
\* least 20 (so 08:00 and 19:59 are out and 20:00 is in).
InInsiderResult(f) == \E k \in DOMAIN out[1].rows : out[1].rows[k].access_id = f.access_id
C1_OffHours ==
    ReadOk(1) =>
        \A f \in Range(File_Access) :
            HasEmployee(f.employee_id) =>
                (InInsiderResult(f) <=>
                    (f.timestamp.valid /\ (f.timestamp.hh < 8 \/ f.timestamp.hh >= 20)))
\* a run whose result holds a 20:00 access and leaves out an 08:00 access
C1_Witness ==
    /\ ReadOk(1)
    /\ \E f, g \in Range(File_Access) :
          /\ HasEmployee(f.employee_id) /\ f.timestamp = Time(20, 0) /\ InInsiderResult(f)
          /\ HasEmployee(g.employee_id) /\ g.timestamp = Time(8, 0) /\ ~InInsiderResult(g)

\* ---------------------------------------------------------------------- C2
Emp001Jumps ==
    Len(SelectSeq(ImpossibleTravel(Access_logs), LAMBDA r : r._ID = "EMP001"))
BulkForEmp001 ==
    \E k \in 3..Len(Access_logs) : Access_logs[k]._ID = "EMP001"
\* C2 as stated: after the access logs are seeded, the impossible-travel
\* check flags exactly one transition of EMP001, whatever the bulk loop drew.
C2_ExactlyOne == spc = "logs_inserted" => Emp001Jumps = 1
\* C2 as amended: after the access logs are seeded, the impossible-travel
\* check flags at least one transition of EMP001, and exactly one when the
\* bulk loop drew no entry for EMP001.
C2_AtLeastOne ==
    spc = "logs_inserted" =>
        /\ Emp001Jumps >= 1
        /\ ~BulkForEmp001 => Emp001Jumps = 1
\* a seeded store where the bulk loop drew EMP001 and one transition is flagged
C2_Witness == spc = "logs_inserted" /\ BulkForEmp001 /\ Emp001Jumps = 1

\* ---------------------------------------------------------------------- C3
\* The events of a subject in ascending timestamp order, events of equal
\* timestamp in the order the collection holds them.
Earlier(e, d) ==
    /\ e._ID = d._ID
    /\ \/ e.TIMESTAMP < d.TIMESTAMP
       \/ e.TIMESTAMP = d.TIMESTAMP /\ e._id < d._id
HasPredecessor(d) == \E e \in Range(Access_logs) : Earlier(e, d)
Predecessor(d) ==
    CHOOSE e \in Range(Access_logs) :
        /\ Earlier(e, d)
        /\ \A x \in Range(Access_logs) : Earlier(x, d) => (x = e \/ Earlier(x, e))
\* C3 as stated: an event is flagged exactly if it has a preceding event of
\* its subject and its country differs from that event's country; the alert
\* count is the number of flagged events.
FlaggedAsStated ==
    {d \in Range(Access_logs) :
        /\ HasPredecessor(d)
        /\ CountryOf(d.LOCATION) # CountryOf(Predecessor(d).LOCATION)}
C3_AdjacentChange ==
    ReadOk(6) =>
        /\ out[6].n = Cardinality(FlaggedAsStated)
        /\ RowIds(out[6].rows) \subseteq {d._id : d \in FlaggedAsStated}
        /\ Cardinality(FlaggedAsStated) <= HeadRows =>
               RowIds(out[6].rows) = {d._id : d \in FlaggedAsStated}
\* C3 as amended: an event is flagged exactly if it has a preceding event of
\* its subject, that event has a country, and its own country (or its lack
\* of one) differs from it; the first event of a subject is never flagged,
\* events of different subjects are never compared, and the alert count is
\* the number of flagged events.
FlaggedAsAmended ==
    {d \in Range(Access_logs) :
        /\ HasPredecessor(d)
        /\ CountryOf(Predecessor(d).LOCATION) # None
        /\ CountryOf(d.LOCATION) # CountryOf(Predecessor(d).LOCATION)}
C3_AdjacentChangeKnownCountry ==
    ReadOk(6) =>
        /\ out[6].n = Cardinality(FlaggedAsAmended)
        /\ RowIds(out[6].rows) \subseteq {d._id : d \in FlaggedAsAmended}
        /\ Cardinality(FlaggedAsAmended) <= HeadRows =>
               RowIds(out[6].rows) = {d._id : d \in FlaggedAsAmended}
        /\ \A d \in FlaggedAsAmended : HasPredecessor(d)
\* a run that flags one event and passes over an event whose predecessor
\* has no country
C3_Witness ==
    /\ ReadOk(6)
    /\ out[6].n = 1
    /\ \E d \in Range(Access_logs) :
          /\ HasPredecessor(d)
          /\ CountryOf(Predecessor(d).LOCATION) = None
          /\ CountryOf(d.LOCATION) # None

\* ---------------------------------------------------------------------- C4
InRbacResult(fa) == \E k \in DOMAIN out[7].rows : out[7].rows[k].access_id = fa.access_id
Joined7(fa) == HasEmployee(fa.employee_id) /\ HasFile(fa.file_id)
DeptOf(fa) == EmployeeOf(fa.employee_id).Department
NameOf(fa) == FileOf(fa.file_id).file_name
\* word occurs in text, letter case respected
Contains(text, word) ==
    \E i \in 1..(Len(text) - Len(word) + 1) : SubSeq(text, i, i + Len(word) - 1) = word
\* word occurs in text, ASCII letter case ignored
Lowered(text) == [i \in DOMAIN text |-> Fold(text[i])]
ContainsAnyCase(text, word) == Contains(Lowered(text), Lowered(word))
\* C4 as stated: a joined File_Access row is flagged exactly if the
\* department is neither Finance nor HR and the file name contains "Budget"
\* or "Payroll" in exactly that letter case.
C4_CaseSensitive ==
    ReadOk(7) =>
        \A fa \in Range(File_Access) :
            Joined7(fa) =>
                (InRbacResult(fa) <=>
                    /\ DeptOf(fa) \notin {"Finance", "HR"}
                    /\ Contains(NameOf(fa), Budget) \/ Contains(NameOf(fa), Payroll))
\* C4 as amended: a joined File_Access row is flagged exactly if the
\* department is neither Finance nor HR and the file name contains "Budget"
\* or "Payroll" in any letter case.  An IT access to Q1_Budget_Review.xlsx
\* is flagged and one to Q1_Sales.xlsx is not, a Finance access to
\* Budget.xlsx is not flagged, and an IT access to budget.xlsx is flagged.
C4_AnyCase ==
    ReadOk(7) =>
        \A fa \in Range(File_Access) :
            Joined7(fa) =>
                /\ InRbacResult(fa) <=>
                      /\ DeptOf(fa) \notin {"Finance", "HR"}
                      /\ \/ ContainsAnyCase(NameOf(fa), Budget)
                         \/ ContainsAnyCase(NameOf(fa), Payroll)
                /\ DeptOf(fa) = "IT" /\ NameOf(fa) = Q1_Budget_Review_xlsx => InRbacResult(fa)
                /\ DeptOf(fa) = "IT" /\ NameOf(fa) = Q1_Sales_xlsx => ~InRbacResult(fa)
                /\ DeptOf(fa) = "Finance" /\ NameOf(fa) = Budget_xlsx => ~InRbacResult(fa)
                /\ DeptOf(fa) = "IT" /\ NameOf(fa) = budget_xlsx => InRbacResult(fa)
\* a run that flags an IT access to budget.xlsx and passes a Finance access
\* to Budget.xlsx
C4_Witness ==
    /\ ReadOk(7)
    /\ \E fa, fb \in Range(File_Access) :
          /\ Joined7(fa) /\ DeptOf(fa) = "IT" /\ NameOf(fa) = budget_xlsx /\ InRbacResult(fa)
          /\ Joined7(fb) /\ DeptOf(fb) = "Finance" /\ NameOf(fb) = Budget_xlsx
          /\ ~InRbacResult(fb)

\* ---------------------------------------------------------------------- C5
InVulnResult(s) == \E k \in DOMAIN out[8].rows : out[8].rows[k].device_id = s.device_id
\* C5: an Endpoint_Security row of an existing employee is flagged exactly
\* if its antivirus status is not "Active" or its OS version is "XP" or "7",
\* whatever its nullable columns hold.
C5_NotActiveOrOldVersion ==
    ReadOk(8) =>
        \A s \in Range(Endpoint_Security) :
            HasEmployee(s.employee_id) =>
                (InVulnResult(s) <=>
                    (s.antivirus_status # "Active" \/ s.os_version \in {"XP", "7"}))

\* ---------------------------------------------------------------------- C6
FailedOf(id) == {d \in Range(Access_logs) : d._ID = id /\ d.STATUS = "Failed"}
\* C6: a subject is in the result of use case 3 exactly if it has at least
\* two "Failed" documents; its count is the number of those documents; the
\* rows are in non-increasing order of count.
C6_RepeatedFailures ==
    ReadOk(3) =>
        /\ \A d \in Range(Access_logs) :
              (\E k \in DOMAIN out[3].rows : out[3].rows[k]._id = d._ID)
                  <=> Cardinality(FailedOf(d._ID)) >= 2
        /\ \A k \in DOMAIN out[3].rows :
              out[3].rows[k].Failed_Count = Cardinality(FailedOf(out[3].rows[k]._id))
        /\ \A i, j \in DOMAIN out[3].rows :
              /\ i < j => out[3].rows[i].Failed_Count >= out[3].rows[j].Failed_Count
              /\ i # j => out[3].rows[i]._id # out[3].rows[j]._id
\* a run listing a subject with three failures before one with two
C6_Witness ==
    /\ ReadOk(3)
    /\ Len(out[3].rows) = 2
    /\ out[3].rows[1].Failed_Count = 3
    /\ out[3].rows[2].Failed_Count = 2

\* ---------------------------------------------------------------------- C7
\* C7: the number use case 4 reports is the number of phishing documents
\* with a score above 0.8 (80 hundredths) and link-clicked true.
C7_HighRiskCount ==
    ReadOk(4) =>
        out[4].n = Cardinality({d \in Range(Phishing_attacks) :
                                   d.ANOMALY_SCORE > 80 /\ d.LINK_CLICKED})
\* a run over a clicked 0.8, an unclicked 0.81 and a clicked 0.81 counting one
C7_Witness ==
    /\ ReadOk(4)
    /\ out[4].n = 1
    /\ \E a, b, c \in Range(Phishing_attacks) :
          /\ a.ANOMALY_SCORE = 80 /\ a.LINK_CLICKED
          /\ b.ANOMALY_SCORE = 81 /\ ~b.LINK_CLICKED
          /\ c.ANOMALY_SCORE = 81 /\ c.LINK_CLICKED

\* ---------------------------------------------------------------------- C8
Joined5(n) == HasEmployee(n.employee_id) /\ HasProtocol(n.protocol_id)
ProtocolName(n) == ProtocolOf(n.protocol_id).protocol_name
RECURSIVE SumOver(_)
SumOver(S) == IF S = {} THEN 0
              ELSE LET n == CHOOSE x \in S : TRUE
                   IN n.data_transfered_MB + SumOver(S \ {n})
\* the megabytes one employee moved over one protocol (a protocol is the
\* name the result shows)
TotalOf(emp, proto) ==
    SumOver({n \in Range(Network_Usage) :
                Joined5(n) /\ n.employee_id = emp /\ ProtocolName(n) = proto})
InExfilResult(emp, proto) ==
    \E k \in DOMAIN out[5].rows :
        out[5].rows[k].employee_id = emp /\ out[5].rows[k].protocol_name = proto
C9_FailureIsolation ==
    /\ \A k \in DOMAIN attempted : attempted[k] = k
    /\ pc = "exited" => attempted = <<>>
    /\ pc \notin {"done", "exited", "off"} => ENABLED Next
    /\ \A i \in Range(attempted) : i \in raises => out[i] = ErrorOutput
    /\ pc = "done" =>
          /\ attempted = <<1, 2, 3, 4, 5, 6, 7, 8>>
          /\ banner
          /\ sql_conn = "closed"
          /\ mongo_client = "closed"
\* a finished run in which checks 2 and 5 raised
C9_Witness == pc = "done" /\ raises = {2, 5} /\ out[2] = ErrorOutput /\ out[5] = ErrorOutput

\* --------------------------------------------------------------------- C10
ResultEmpty(i) ==
    CASE i = 1 -> Len(query_insider) = 0
      [] i = 2 -> Len(SlaJoined) = 0
      [] i = 3 -> StageMatchCount = {}
      [] i = 4 -> count_documents = 0
      [] i = 5 -> \A n \in Range(Network_Usage) :
                      Joined5(n) => TotalOf(n.employee_id, ProtocolName(n)) <= 100
      [] i = 6 -> Len(Access_logs) = 0 \/ Len(ImpossibleTravel(Access_logs)) = 0
      [] i = 7 -> Len(query_rbac) = 0
      [] i = 8 -> Len(query_vuln) = 0
\* the messages the script prints only for an empty result
NoFindingsMessages ==
    {">> No after-hours access detected.",
     ">> No users exceeded failure threshold.",
     ">> No large transfers detected.",
     ">> No log data available.",
     ">> No impossible travel patterns found.",
     ">> No RBAC violations detected.",
     ">> All devices healthy."}
\* C10: each check whose read succeeds with an empty result prints a
\* message of its own for that case, one it prints neither on an error nor
\* for a non-empty result.
C10_NoFindingsMessage ==
    \A i \in Checks :
        (ReadOk(i) /\ ResultEmpty(i)) => out[i].msg \in NoFindingsMessages

\* --------------------------------------------------------------------- C11
\* C11: in the seeding run and in the analysis run, once a connection to
\* either store has failed, the failure is reported and the process has
\* terminated: it is at no later statement of the script.
C11_ConnectionFatal ==
    /\ reported # {} => spc = "exited"
    /\ (pc \notin {"off", "connect"} /\ (sql_conn = "none" \/ mongo_client = "none"))
          => (pc = "exited" /\ attempted = <<>>)

\* --------------------------------------------------------------------- C12
Completed == spc = "done" /\ reported = {}
\* the ids of rows are 1..n in row order
NumberedFromOne(rows, col, n) ==
    Len(rows) = n /\ \A k \in DOMAIN rows : rows[k][col] = k
\* everything C12 states but the number of employees
RecreatedButEmployees ==
    /\ NumberedFromOne(Endpoint_Security, "device_id", 10)
    /\ Endpoint_Security = Numbered("device_id", endpoint_data)
    /\ NumberedFromOne(File_Access, "access_id", 6)
    /\ File_Access = Numbered("access_id", FileAccess_sql)
    /\ File_Data = Numbered("file_id", FileName_sql)
    /\ Network_Usage = Numbered("network_usage_id", NetworkInfo_sql)
    /\ Security_Incidents = Numbered("incident_id", Security_Incidents_sql)
    /\ Incident_Response = Numbered("incident_response_id", Incident_Response_sql)
    /\ Access_Type = Numbered("access_type_id", Access_Type_sql)
    /\ Permissions = Numbered("permission_id", Permissions_sql)
    /\ Detected_By = Numbered("detected_by_id", Detected_By_sql)
    /\ Detection_Method = Numbered("detection_method_id", Detection_Method_sql)
    /\ Protocol_Data = Protocol_sql
    /\ Roles = department_roles
    /\ \A k \in DOMAIN Employee_Data :
          /\ Employee_Data[k].employee_id = k
          /\ Employee_Data[k].name = EmpNames_sql[k].name
    \* the collections hold this run's documents and no others
    /\ Len(Access_logs) = 2 + BulkCount
    /\ Access_logs = Inserted(<<>>, access_logs_data)
    /\ Len(Phishing_attacks) = PhishCount
    /\ \A i \in DOMAIN Phishing_attacks :
          /\ Phishing_attacks[i]._id = i
          /\ Phishing_attacks[i].PHISHING_ID = i
          /\ Phishing_attacks[i].ANOMALY_SCORE = random.phishing[i].ANOMALY_SCORE
DeclaredKeysHold ==
    /\ References(Roles_Permissions, "role_id", Roles, "role_id")
    /\ References(Roles_Permissions, "permission_id", Permissions, "permission_id")
    /\ References(Endpoint_Security, "employee_id", Employee_Data, "employee_id")
    /\ References(Network_Usage, "employee_id", Employee_Data, "employee_id")
    /\ References(Network_Usage, "protocol_id", Protocol_Data, "protocol_id")
    /\ References(File_Access, "employee_id", Employee_Data, "employee_id")
    /\ References(File_Access, "access_type_id", Access_Type, "access_type_id")
    /\ References(File_Access, "file_id", File_Data, "file_id")
    /\ References(Security_Incidents, "employee_id", Employee_Data, "employee_id")
    /\ References(Incident_Response, "incident_id", Security_Incidents, "incident_id")
    /\ References(Incident_Detection, "incident_id", Security_Incidents, "incident_id")
    /\ References(Incident_Detection, "detection_method_id", Detection_Method,
                  "detection_method_id")
    /\ References(Incident_Detection, "detected_by_id", Detected_By, "detected_by_id")
\* the role an employee row names is a row of Roles
EmployeeRolesExist == References(Employee_Data, "role_ID", Roles, "role_id")
\* C13 as stated: at every point of a seeding run every reference a row
\* holds, an employee's role included, names an existing parent row, and no
\* insert fails on a missing parent.
C13_EveryReference ==
    spc # "off" => (DeclaredKeysHold /\ EmployeeRolesExist /\ spc # "integrity_error")
\* C13 as amended: at every point of a seeding run every declared foreign key
\* names an existing parent row and no insert fails on a missing parent; the
\* role of an employee, which is no declared key, names an existing role at
\* every point but between the insert of the employees and the insert of the
\* roles, so in the final state too.
C13_DeclaredKeys ==
    spc # "off" =>
        /\ DeclaredKeysHold
        /\ spc # "integrity_error"
        /\ spc \notin {"endpoints", "lookups", "roles"} => EmployeeRolesExist
\* the run between the insert of the employees and the insert of the roles
C13_Witness ==
    /\ spc = "endpoints"
    /\ Len(Employee_Data) = 60
    /\ Roles = <<>>
    /\ ~EmployeeRolesExist

\* --------------------------------------------------------------------- C14
\* C14: over non-empty Access_logs, whatever the documents hold as LOCATION,
\* a read that succeeds ends use case 6 with its findings or its no-findings
\* output and not with its error output.
C14_PartialDocuments ==
    (6 \in Range(attempted) /\ 6 \notin raises /\ Len(Access_logs) # 0) =>
        out[6].msg \in {">> ALERT: {n} suspicious location jumps detected.",
                        ">> No impossible travel patterns found."}

\* --------------------------------------------------------------------- C15
InRange(role, range) == range[1] <= role /\ role <= range[2]
NoPairTwice(rp) == \A i, j \in DOMAIN rp : i # j => rp[i] # rp[j]
\* C15: after a complete seeding run every employee's role lies in the range
\* of the employee's department and is a row of Roles, an employee has its
\* placeholder role only if that lies in the range, and at no point does
\* Roles_Permissions hold a pair twice or the linking step fail.
C15_RoleAssignment ==
    /\ spc # "off" => (NoPairTwice(Roles_Permissions) /\ spc # "integrity_error")
    /\ spc = "done" =>
          \A k \in DOMAIN Employee_Data :
              /\ Employee_Data[k].Department \in DOMAIN role_ranges
              /\ InRange(Employee_Data[k].role_ID, role_ranges[Employee_Data[k].Department])
              /\ \E r \in DOMAIN Roles : Roles[r].role_id = Employee_Data[k].role_ID
              /\ Employee_Data[k].role_ID = EmpNames_sql[k].role_ID =>
                    InRange(EmpNames_sql[k].role_ID, role_ranges[EmpNames_sql[k].Department])
\* a complete run in which Amy Scott and Bob Smith drew one role at the high
\* end of the IT range and each of their two permissions was linked once
C15_Witness ==
    /\ spc = "done"
    /\ Employee_Data[2].role_ID = 10
    /\ Employee_Data[27].role_ID = 10
    /\ \A p \in {1, 2} :
          Cardinality({k \in DOMAIN Roles_Permissions :
                          /\ Roles_Permissions[k].role_id = 10
                          /\ Roles_Permissions[k].permission_id = p}) = 1

====
